---------------------------- MODULE Spec2Model ----------------------------
(***************************************************************************)
(* Model of the ask-database core of ai-connect: the SQL validator         *)
(* (validateSql), the safety limiter (addSafetyLimits) and the             *)
(* orchestrator (askDatabase) that races the pipeline                      *)
(* generate -> validate -> limit -> execute -> format against a timer.     *)
(*                                                                         *)
(* JavaScript strings are TLA+ strings; TLC evaluates Len, \o, SubSeq,     *)
(* Head and Tail on them, so every string function below is computed       *)
(* character by character, as the code computes it.                        *)
(***************************************************************************)
EXTENDS Integers, Sequences, FiniteSets, TLC

(***************************************************************************)
(* Bounds of the model.                                                    *)
(***************************************************************************)
\* Longest SQL input, in chunks of SqlChunks, that SpecSql hands to the
\* validator and the limiter.
MaxChunks == 3
\* Most whitespace characters put in front of a SQL input.
MaxLead == 1
\* Most tables of a SchemaConfig, and most columns of a table, that SpecSchema
\* hands to buildSchemaContext.
MaxTables == 2
MaxColumns == 2

(***************************************************************************)
(* String primitives of the JavaScript runtime.                            *)
(***************************************************************************)
UpperLetters == "ABCDEFGHIJKLMNOPQRSTUVWXYZ"
LowerLetters == "abcdefghijklmnopqrstuvwxyz"
Digits == "0123456789"

CharAt(s, i) == SubSeq(s, i, i)

CharsOf(s) == {CharAt(s, i) : i \in 1..Len(s)}

\* String.prototype.toUpperCase on one character
UpperOf == [c \in CharsOf(LowerLetters) |->
              LET i == CHOOSE k \in 1..Len(LowerLetters) : CharAt(LowerLetters, k) = c
              IN  CharAt(UpperLetters, i)]

ToUpperChar(c) == IF c \in DOMAIN UpperOf THEN UpperOf[c] ELSE c

RECURSIVE ToUpperCase(_)
ToUpperCase(s) ==
    IF s = "" THEN "" ELSE ToUpperChar(Head(s)) \o ToUpperCase(Tail(s))

\* the white space String.prototype.trim strips
WhiteSpace == {" ", "\t", "\n", "\r"}

RECURSIVE TrimStart(_)
TrimStart(s) ==
    IF s # "" /\ Head(s) \in WhiteSpace THEN TrimStart(Tail(s)) ELSE s

RECURSIVE TrimEnd(_)
TrimEnd(s) ==
    IF s # "" /\ CharAt(s, Len(s)) \in WhiteSpace
    THEN TrimEnd(SubSeq(s, 1, Len(s) - 1))
    ELSE s

Trim(s) == TrimEnd(TrimStart(s))

StartsWith(s, p) == Len(s) >= Len(p) /\ SubSeq(s, 1, Len(p)) = p

EndsWith(s, p) == Len(s) >= Len(p) /\ SubSeq(s, Len(s) - Len(p) + 1, Len(s)) = p

\* the 1-based positions at which p occurs in s
Occurrences(s, p) ==
    {i \in 1..(Len(s) - Len(p) + 1) : SubSeq(s, i, i + Len(p) - 1) = p}

Includes(s, p) == Occurrences(s, p) # {}

\* String.prototype.indexOf: 0-based index of the first occurrence, or -1
IndexOf(s, p) ==
    LET occ == Occurrences(s, p)
    IN  IF occ = {} THEN -1
        ELSE (CHOOSE i \in occ : \A j \in occ : i <= j) - 1

\* the characters the regular expression class \w matches
WordChars == CharsOf(UpperLetters) \cup CharsOf(LowerLetters) \cup CharsOf(Digits) \cup {"_"}

\* the assertion \b at the gap before the 1-based position i of s
WordBoundary(s, i) ==
    LET before == i > 1 /\ CharAt(s, i - 1) \in WordChars
        after  == i <= Len(s) /\ CharAt(s, i) \in WordChars
    IN  before # after

\* TestWholeWord with the regular expression built without \b
TestKeywordAnywhere(keyword, sql) ==
    Includes(ToUpperCase(sql), ToUpperCase(keyword))

\* new RegExp(`\\b${keyword}\\b`, 'i').test(sql)
TestWholeWord(keyword, sql) ==
    LET upperSql == ToUpperCase(sql)
        upperKeyword == ToUpperCase(keyword)
    IN  \E i \in 1..(Len(sql) - Len(keyword) + 1) :
            /\ SubSeq(upperSql, i, i + Len(keyword) - 1) = upperKeyword
            /\ WordBoundary(sql, i)
            /\ WordBoundary(sql, i + Len(keyword))

\* /literal/i.test(sql), for a pattern that is literal text
TestLiteralIgnoreCase(literal, sql) ==
    Includes(ToUpperCase(sql), ToUpperCase(literal))

(***************************************************************************)
(* JavaScript values that are not always strings: the sql field of the     *)
(* model's reply, maxRows, a thrown value, a cell of a row.  `s` holds     *)
(* the string of a string and the message of an Error or of a plain        *)
(* object with a message field; `n` holds the number of a number.          *)
(***************************************************************************)
JsString(s) == [t |-> "string", s |-> s, n |-> 0]
JsNumber(n) == [t |-> "number", s |-> "", n |-> n]
JsUndefined == [t |-> "undefined", s |-> "", n |-> 0]
JsNull == [t |-> "null", s |-> "", n |-> 0]

\* `${value}` in a template literal
TemplateString(v) ==
    CASE v.t = "string" -> v.s
      [] v.t = "number" -> ToString(v.n)
      [] v.t = "null" -> "null"
      [] v.t = "undefined" -> "undefined"
      [] v.t = "Error" -> "Error: " \o v.s
      [] OTHER -> "[object Object]"

(***************************************************************************)
(* SQL validator                                                           *)
(***************************************************************************)
BLOCKED_KEYWORDS ==
    << "INSERT", "UPDATE", "DELETE", "DROP", "ALTER", "TRUNCATE",
       "CREATE", "GRANT", "REVOKE", "EXECUTE", "CALL", "VACUUM",
       "REINDEX", "CLUSTER", "COMMENT", "LOCK", "UNLISTEN", "NOTIFY" >>

SENSITIVE_PATTERNS ==
    << "password", "stripe_customer", "api_key", "secret",
       "auth.users", "pg_catalog", "information_schema" >>

\* SqlValidationResult; error "" stands for the absent error of { valid: true }
ValidResult == [valid |-> TRUE, error |-> ""]
InvalidResult(error) == [valid |-> FALSE, error |-> error]

\* NotSelectStatement on the string as given: neither trimmed nor upper-cased
NotSelectStatementAsGiven(sql) ==
    ~StartsWith(sql, "SELECT") /\ ~StartsWith(sql, "WITH")

\* const normalized = sql.trim().toUpperCase();
\* !normalized.startsWith('SELECT') && !normalized.startsWith('WITH')
NotSelectStatement(sql) ==
    LET normalized == ToUpperCase(Trim(sql))
    IN  ~StartsWith(normalized, "SELECT") /\ ~StartsWith(normalized, "WITH")

\* BlockedMatches with the regular expression built without the 'i' flag
BlockedMatchesCaseSensitive(sql) ==
    {k \in 1..Len(BLOCKED_KEYWORDS) :
        \E i \in 1..(Len(sql) - Len(BLOCKED_KEYWORDS[k]) + 1) :
            /\ SubSeq(sql, i, i + Len(BLOCKED_KEYWORDS[k]) - 1) = BLOCKED_KEYWORDS[k]
            /\ WordBoundary(sql, i)
            /\ WordBoundary(sql, i + Len(BLOCKED_KEYWORDS[k]))}

\* the indexes of BLOCKED_KEYWORDS whose regular expression matches sql
BlockedMatches(sql) ==
    {k \in 1..Len(BLOCKED_KEYWORDS) : TestWholeWord(BLOCKED_KEYWORDS[k], sql)}

\* the keyword at which the for loop over BLOCKED_KEYWORDS returns
FirstBlockedKeyword(sql) ==
    LET m == BlockedMatches(sql)
    IN  BLOCKED_KEYWORDS[CHOOSE k \in m : \A j \in m : k <= j]

\* some pattern of SENSITIVE_PATTERNS matches sql
MatchesSensitivePattern(sql) ==
    \E k \in 1..Len(SENSITIVE_PATTERNS) :
        TestLiteralIgnoreCase(SENSITIVE_PATTERNS[k], sql)

\* const semicolonIndex = sql.indexOf(';');
\* semicolonIndex !== -1 && semicolonIndex < sql.trim().length - 1
HasMultipleStatements(sql) ==
    LET semicolonIndex == IndexOf(sql, ";")
    IN  semicolonIndex # -1 /\ semicolonIndex < Len(Trim(sql)) - 1

\* sql.includes('--') || sql.includes('/*')
HasComment(sql) == Includes(sql, "--") \/ Includes(sql, "/*")

\* validateSql(sql), sql any JavaScript value
validateSql(sql) ==
    IF sql.t # "string" \/ sql.s = ""
    THEN InvalidResult("SQL query is required")
    ELSE IF NotSelectStatement(sql.s)
    THEN InvalidResult("Query must be a SELECT statement")
    ELSE IF BlockedMatches(sql.s) # {}
    THEN InvalidResult("Query contains blocked keyword: " \o FirstBlockedKeyword(sql.s))
    ELSE IF MatchesSensitivePattern(sql.s)
    THEN InvalidResult("Query attempts to access sensitive data")
    ELSE IF HasMultipleStatements(sql.s)
    THEN InvalidResult("Multiple statements not allowed")
    ELSE IF HasComment(sql.s)
    THEN InvalidResult("SQL comments not allowed")
    ELSE ValidResult

(***************************************************************************)
(* Safety limiter                                                          *)
(***************************************************************************)
\* HasLimitOrCount without the test for a LIMIT clause
HasCountOnly(sql) == Includes(ToUpperCase(sql), "COUNT(")

\* upperSql.includes(' LIMIT ') || upperSql.includes('COUNT(')
HasLimitOrCount(sql) ==
    LET upperSql == ToUpperCase(sql)
    IN  Includes(upperSql, " LIMIT ") \/ Includes(upperSql, "COUNT(")

\* CleanSql without the removal of the trailing semicolon
CleanSqlKeepSemicolon(sql) == Trim(sql)

\* let cleanSql = sql.trim(); if (cleanSql.endsWith(';')) cleanSql = cleanSql.slice(0, -1);
CleanSql(sql) ==
    LET cleanSql == Trim(sql)
    IN  IF EndsWith(cleanSql, ";") THEN SubSeq(cleanSql, 1, Len(cleanSql) - 1)
        ELSE cleanSql

\* addSafetyLimits(sql, maxRows), maxRows any JavaScript value but undefined
addSafetyLimits(sql, maxRows) ==
    IF HasLimitOrCount(sql) THEN sql
    ELSE CleanSql(sql) \o " LIMIT " \o TemplateString(maxRows)

(***************************************************************************)
(* askDatabase: values                                                     *)
(***************************************************************************)
JsBoolean(b) == [t |-> "boolean", s |-> "", n |-> IF b THEN 1 ELSE 0]
\* an object that is no Error, such as a SchemaConfig
JsObject == [t |-> "object", s |-> "", n |-> 0]
\* new Error(message), or an instance of a subclass of Error
JsError(message) == [t |-> "Error", s |-> message, n |-> 0]
\* a plain object with a message field, such as the error of a Supabase rpc
JsErrorObject(message) == [t |-> "object", s |-> message, n |-> 0]

\* the truthiness of a value: !value is its negation
Truthy(v) ==
    CASE v.t = "string" -> v.s # ""
      [] v.t = "number" -> v.n # 0
      [] v.t = "boolean" -> v.n = 1
      [] v.t \in {"undefined", "null"} -> FALSE
      [] OTHER -> TRUE

\* a destructuring default: name = fallback applies to undefined only
WithDefault(v, fallback) == IF v.t = "undefined" THEN fallback ELSE v

DefaultMaxRows == 1000
DefaultTimeout == 30000

\* a promise: pending, fulfilled with a value, or rejected with an Error
\* whose message is `error`
Pending == [state |-> "pending", error |-> "", value |-> <<>>]
Fulfilled(value) == [state |-> "fulfilled", error |-> "", value |-> <<value>>]
Rejected(message) == [state |-> "rejected", error |-> message, value |-> <<>>]

\* token usage of a model call; <<>> is an absent usage
ZeroUsage == [inputTokens |-> 0, outputTokens |-> 0]

\* reject(new Error(`Query timed out after ${timeout}ms`))
TimeoutMessage(timeout) ==
    "Query timed out after " \o TemplateString(timeout) \o "ms"

\* generateSql: if (!schema) throw new Error('Schema is required. ...')
SchemaRequiredMessage ==
    "Schema is required. Pass your database schema as a string or SchemaConfig object."

\* InvalidSqlMessage without the reason of the validator
InvalidSqlMessageGeneric(validation) == "Generated SQL is invalid"

\* throw new Error(`Generated SQL is invalid: ${validation.error}`)
InvalidSqlMessage(validation) == "Generated SQL is invalid: " \o validation.error

\* `SQL execution failed: ${error instanceof Error ? error.message : 'Unknown error'}`
ExecutionFailedMessage(thrown) ==
    "SQL execution failed: " \o (IF thrown.t = "Error" THEN thrown.s ELSE "Unknown error")

\* DefaultAnswer with the first value of any single row taken as the result
DefaultAnswerFirstColumn(rawData) ==
    IF Len(rawData) = 0 THEN "No results found."
    ELSE IF Len(rawData) = 1 /\ Len(rawData[1]) >= 1
    THEN "Result: " \o TemplateString(rawData[1][1].value)
    ELSE "Found " \o ToString(Len(rawData)) \o " result(s)."

\* the answer when formatResults is off; a row is a sequence of cells
\* [column, value], in the order of Object.keys
DefaultAnswer(rawData) ==
    IF Len(rawData) = 0 THEN "No results found."
    ELSE IF Len(rawData) = 1 /\ Len(rawData[1]) = 1
    THEN "Result: " \o TemplateString(rawData[1][1].value)
    ELSE "Found " \o ToString(Len(rawData)) \o " result(s)."

\* AskDatabaseResult with the generator's SQL, not the limited SQL, as sql
AskDatabaseResultRawSql(safeSql, sqlResult, answer, rawData, shouldFormat, formattingUsage) ==
    LET sqlUsage == IF sqlResult.usage = <<>> THEN ZeroUsage ELSE sqlResult.usage[1]
        fmtUsage == IF formattingUsage = <<>> THEN ZeroUsage ELSE formattingUsage[1]
    IN  [ sql |-> sqlResult.sql.s,
          explanation |-> sqlResult.explanation,
          answer |-> answer,
          rawData |-> rawData,
          usage |-> [ sqlGeneration |-> sqlUsage,
                      formatting |-> IF shouldFormat THEN <<fmtUsage>> ELSE <<>>,
                      total |-> [ inputTokens |-> sqlUsage.inputTokens + fmtUsage.inputTokens,
                                  outputTokens |-> sqlUsage.outputTokens + fmtUsage.outputTokens ] ] ]

\* AskDatabaseResult with the generator's usage alone as the total
AskDatabaseResultGenerationTotal(safeSql, sqlResult, answer, rawData, shouldFormat, formattingUsage) ==
    LET sqlUsage == IF sqlResult.usage = <<>> THEN ZeroUsage ELSE sqlResult.usage[1]
        fmtUsage == IF formattingUsage = <<>> THEN ZeroUsage ELSE formattingUsage[1]
    IN  [ sql |-> safeSql,
          explanation |-> sqlResult.explanation,
          answer |-> answer,
          rawData |-> rawData,
          usage |-> [ sqlGeneration |-> sqlUsage,
                      formatting |-> IF shouldFormat THEN <<fmtUsage>> ELSE <<>>,
                      total |-> sqlUsage ] ]

\* the AskDatabaseResult returned by executeAskDatabase; executionTimeMs, a
\* difference of two clock readings, is left out
AskDatabaseResult(safeSql, sqlResult, answer, rawData, shouldFormat, formattingUsage) ==
    LET sqlUsage == IF sqlResult.usage = <<>> THEN ZeroUsage ELSE sqlResult.usage[1]
        fmtUsage == IF formattingUsage = <<>> THEN ZeroUsage ELSE formattingUsage[1]
    IN  [ sql |-> safeSql,
          explanation |-> sqlResult.explanation,
          answer |-> answer,
          rawData |-> rawData,
          usage |-> [ sqlGeneration |-> sqlUsage,
                      formatting |-> IF shouldFormat THEN <<fmtUsage>> ELSE <<>>,
                      total |-> [ inputTokens |-> sqlUsage.inputTokens + fmtUsage.inputTokens,
                                  outputTokens |-> sqlUsage.outputTokens + fmtUsage.outputTokens ] ] ]

(***************************************************************************)
(* State                                                                   *)
(***************************************************************************)
VARIABLES
    vsql,         \* SpecSql: the SQL string under test
    vmaxRows,     \* SpecSql: the maxRows handed to addSafetyLimits
    vvalidation,  \* SpecSql: <<validateSql(vsql)>> once computed
    vsafeSql,     \* SpecSql: <<addSafetyLimits(vsql, vmaxRows)>> once computed
    inv,          \* the invocations of askDatabase, by caller
    regexLastIndex, \* SpecPure: lastIndex of each RegExp of SENSITIVE_PATTERNS
    validateLog,  \* SpecPure: the calls of validateSql so far, as [sql, result]
    vconfig,      \* SpecSchema: <<the SchemaConfig under test>>
    vcontext,     \* SpecSchema: <<buildSchemaContext(vconfig)>> once computed
    http          \* SpecHttp: the request a server adapter is handling

sqlVars == <<vsql, vmaxRows, vvalidation, vsafeSql>>
pureVars == <<regexLastIndex, validateLog>>
schemaVars == <<vconfig, vcontext>>
httpVars == <<http>>

vars == <<sqlVars, inv, pureVars, schemaVars, httpVars>>

\* the variables of the other specifications, at rest
PureAtRest ==
    /\ regexLastIndex = [k \in 1..Len(SENSITIVE_PATTERNS) |-> 0]
    /\ validateLog = {}

SchemaAtRest == vconfig = <<>> /\ vcontext = <<>>

\* a server adapter before a request arrives: pc is where the handler stands
\* ("idle", awaiting "json", "getModel" or "askDatabase", or "responded");
\* request is <<the request>>, body <<the parsed body>>, thrown <<the value
\* the catch block caught>>, response <<the response sent>>; calls lists the
\* functions the handler called, in order
IdleHandler ==
    [ pc |-> "idle", request |-> <<>>, body |-> <<>>, thrown |-> <<>>,
      response |-> <<>>, calls |-> <<>> ]

HttpAtRest == http = IdleHandler

\* the callers that may each invoke askDatabase once
Invocations == {"a", "b"}

\* an invocation before the call: pc is where executeAskDatabase stands
\* ("idle", awaiting "generateSql", "executeQuery" or "formatQueryResults",
\* or "finished"); options is <<the options of the call>>; generated and
\* executeReply are <<what the model call of generateSql settled with>> and
\* <<what executeQuery settled with>>, formatReply is <<what the model call
\* of formatQueryResults settled with>>; calls lists the functions called, in
\* order; executed lists the strings handed to executeQuery; sqlResult,
\* validation, safeSql and rawData are <<>> until the pipeline has computed
\* them
IdleInvocation ==
    [ pc |-> "idle",
      options |-> <<>>,
      maxRows |-> JsUndefined, shouldFormat |-> FALSE, timeout |-> JsUndefined,
      timer |-> "none",
      pipeline |-> Pending,
      outcome |-> Pending,
      generated |-> <<>>, sqlResult |-> <<>>, validation |-> <<>>, safeSql |-> <<>>,
      executeReply |-> <<>>, rawData |-> <<>>, formatReply |-> <<>>,
      calls |-> <<>>, executed |-> <<>> ]

\* Race with the pipeline's settlement always passed on to the caller
RaceLastWins(r) ==
    IF r.pipeline.state # "pending" THEN [r EXCEPT !.outcome = r.pipeline] ELSE r

\* Promise.race([executeAskDatabase(), timeoutPromise]): the caller's promise
\* settles as the first of the two settles
Race(r) ==
    IF r.outcome.state = "pending" /\ r.pipeline.state # "pending"
    THEN [r EXCEPT !.outcome = r.pipeline]
    ELSE r

\* executeAskDatabase throws: its promise rejects
Throw(r, message) ==
    Race([r EXCEPT !.pc = "finished", !.pipeline = Rejected(message)])

\* executeAskDatabase returns its result
Return(r, answer, formattingUsage) ==
    Race([r EXCEPT !.pc = "finished",
                   !.pipeline = Fulfilled(AskDatabaseResult(r.safeSql[1], r.sqlResult[1],
                                    answer, r.rawData[1], r.shouldFormat, formattingUsage))])

(***************************************************************************)
(* SpecSql: the validator and the limiter applied to bounded SQL inputs.   *)
(***************************************************************************)
\* the pieces SQL inputs are put together from
SqlChunks ==
    { "SELECT x", "select", "WITH", " ", "\n", ";", "Delete",
      "LIMIT 5", "COUNT(", "password", "--" }

RECURSIVE ChunkStrings(_)
ChunkStrings(n) ==
    IF n = 0 THEN {""}
    ELSE LET shorter == ChunkStrings(n - 1)
         IN  shorter \cup {s \o c : s \in shorter, c \in SqlChunks}

\* n spaces
RECURSIVE Spaces(_)
Spaces(n) == IF n = 0 THEN "" ELSE " " \o Spaces(n - 1)

\* column names: most hold a blocked keyword inside a longer word, some are
\* a blocked keyword
ColumnNames ==
    { "inserted_at", "updated_at", "created", "deleted", "dropped", "altered_by",
      "SELECTED", "lock_version", "recall", "comments", "caller_id", "unlocked",
      "INSERT_", "_UPDATE", "x1CREATE2", "grantee",
      "update", "comment", "Lock", "id" }

\* queries that select one column, its name quoted or not
ColumnQueries ==
    {"SELECT " \o q \o c \o q \o " FROM t" : q \in {"", "\""}, c \in ColumnNames}

\* whole statements
StatementQueries ==
    { "DROP TABLE t",
      "SELECT 1; DROP TABLE t; delete from t",
      "        SELECT 1;SELECT 2",
      "SELECT x /* c */ FROM t",
      "SELECT a FROM t LIMIT 5",
      "SELECT a FROM t\nLIMIT 5",
      "SELECT city, COUNT(*) FROM t GROUP BY city",
      "SELECT api_key FROM auth.users;" }

SqlInputs ==
    {Spaces(n) \o s : n \in 0..MaxLead, s \in ChunkStrings(MaxChunks)}
    \cup ColumnQueries \cup StatementQueries

MaxRowsInputs == {JsNumber(5), JsNumber(1000), JsNumber(-1)}

InitSql ==
    /\ inv = [i \in Invocations |-> IdleInvocation]
    /\ vsql \in SqlInputs
    /\ vmaxRows = JsUndefined
    /\ vvalidation = <<>>
    /\ vsafeSql = <<>>
    /\ PureAtRest
    /\ SchemaAtRest
    /\ HttpAtRest

\* validateSql(vsql)
ValidateStep ==
    /\ vvalidation = <<>>
    /\ vvalidation' = <<validateSql(JsString(vsql))>>
    /\ UNCHANGED <<vsql, vmaxRows, vsafeSql, inv, pureVars, schemaVars, httpVars>>

\* addSafetyLimits(vsql, vmaxRows)
LimitStep ==
    /\ vvalidation # <<>>
    /\ vsafeSql = <<>>
    /\ \E maxRows \in MaxRowsInputs :
          /\ vmaxRows' = maxRows
          /\ vsafeSql' = <<addSafetyLimits(vsql, maxRows)>>
    /\ UNCHANGED <<vsql, vvalidation, inv, pureVars, schemaVars, httpVars>>

NextSql == ValidateStep \/ LimitStep

SpecSql == InitSql /\ [][NextSql]_vars

(***************************************************************************)
(* Properties of the validator and the limiter, checked under SpecSql.     *)
(***************************************************************************)
\* keyword occurs in s as a whole word, in any letter case: an occurrence
\* with no letter, digit or underscore directly before or after it; upper is
\* s in upper case
WholeWordIn(keyword, s, upper) ==
    \E i \in 1..(Len(s) - Len(keyword) + 1) :
        /\ SubSeq(upper, i, i + Len(keyword) - 1) = keyword
        /\ (i = 1 \/ CharAt(s, i - 1) \notin WordChars)
        /\ (i + Len(keyword) > Len(s) \/ CharAt(s, i + Len(keyword)) \notin WordChars)

ContainsWholeWord(keyword, s) == WholeWordIn(keyword, s, ToUpperCase(s))

\* a semicolon occurs in s before the last character of s that is not white space
SemicolonBeforeLastChar(s) ==
    \E i \in 1..Len(s) : CharAt(s, i) = ";" /\ i < Len(TrimEnd(s))

\* s, after trimming and in upper case, begins with SELECT or WITH
BeginsWithSelectOrWith(s) ==
    LET t == ToUpperCase(Trim(s))
    IN  (Len(t) >= 6 /\ SubSeq(t, 1, 6) = "SELECT") \/ (Len(t) >= 4 /\ SubSeq(t, 1, 4) = "WITH")

\* C1: validateSql rejects every SQL string with a semicolon before its last
\* non-whitespace character, with "Multiple statements not allowed" when no
\* earlier check fails, leading or trailing white space or not; a string whose
\* only semicolon is its last non-whitespace character is not rejected by this
\* check.
C1_EarlySemicolonRejected ==
    vvalidation # <<>> =>
        /\ SemicolonBeforeLastChar(vsql) => ~vvalidation[1].valid
        /\ ( /\ SemicolonBeforeLastChar(vsql)
             /\ BeginsWithSelectOrWith(vsql)
             /\ \A k \in 1..Len(BLOCKED_KEYWORDS) : ~ContainsWholeWord(BLOCKED_KEYWORDS[k], vsql)
             /\ ~MatchesSensitivePattern(vsql) )
           => vvalidation[1].error = "Multiple statements not allowed"
        /\ ~SemicolonBeforeLastChar(vsql)
           => vvalidation[1].error # "Multiple statements not allowed"

\* C2 as claimed: for every SQL string that contains a blocked keyword as a
\* whole word in any letter case, validateSql returns valid = false with an
\* error that names that keyword.
C2_KeywordAlwaysNamed ==
    vvalidation # <<>> =>
        \A k \in 1..Len(BLOCKED_KEYWORDS) :
            ContainsWholeWord(BLOCKED_KEYWORDS[k], vsql) =>
                /\ ~vvalidation[1].valid
                /\ Includes(vvalidation[1].error, BLOCKED_KEYWORDS[k])

\* C2 as amended: for every SQL string that contains a blocked keyword as a
\* whole word in any letter case, validateSql returns valid = false; when the
\* string begins with SELECT or WITH the error is "Query contains blocked
\* keyword: " followed by the first keyword, in the order of the list, that
\* the string contains, and otherwise it is "Query must be a SELECT
\* statement", which names no keyword.
C2_KeywordRejected ==
    vvalidation # <<>> =>
        LET upper == ToUpperCase(vsql)
            found == {k \in 1..Len(BLOCKED_KEYWORDS) :
                         WholeWordIn(BLOCKED_KEYWORDS[k], vsql, upper)}
            first == CHOOSE k \in found : \A j \in found : k <= j
        IN  found # {} =>
                /\ ~vvalidation[1].valid
                /\ vvalidation[1].error =
                      IF BeginsWithSelectOrWith(vsql)
                      THEN "Query contains blocked keyword: " \o BLOCKED_KEYWORDS[first]
                      ELSE "Query must be a SELECT statement"

\* C2 witness: a query that begins with select and holds the keyword in mixed
\* case has been rejected with the keyword named
C2_Witness ==
    /\ vsql = "select Delete"
    /\ vvalidation = <<[valid |-> FALSE, error |-> "Query contains blocked keyword: DELETE"]>>

C6_SafeSqlHasLimit ==
    (vvalidation # <<>> /\ vsafeSql # <<>> /\ vvalidation[1].valid) =>
        ContainsWholeWord("LIMIT", vsafeSql[1])

(***************************************************************************)
(* Spec: invocations of askDatabase against a model, an executor and a     *)
(* timer that answer when and as they choose.                              *)
(***************************************************************************)
Questions == {JsString("How many orders?"), JsString(""), JsUndefined}

Schemas == {JsString("## orders"), JsString(""), JsUndefined, JsObject}

MaxRowsOptions == {JsUndefined, JsNumber(5)}

FormatOptions == {JsUndefined, JsBoolean(TRUE), JsBoolean(FALSE)}

TimeoutOptions == {JsUndefined, JsNumber(50)}

AskDatabaseOptions ==
    [ question : Questions, schema : Schemas, maxRows : MaxRowsOptions,
      formatResults : FormatOptions, timeout : TimeoutOptions ]

Usages(some) == {<<>>, <<some>>}

\* the values the sql field of the model's reply takes
GeneratedSqls ==
    { JsString("SELECT * FROM orders"),
      JsString("SELECT * FROM orders;"),
      JsString("SELECT COUNT(*) FROM orders"),
      JsString("SELECT id FROM orders LIMIT 10"),
      JsString("SELECT 1; DROP TABLE orders"),
      JsString("SELECT 1; DELETE FROM orders; DROP TABLE orders"),
      JsString("DROP TABLE orders"),
      JsString(""),
      JsUndefined,
      JsNumber(5) }

\* what the model call of generateSql settles with: an Error, or an object
GenerateReplies ==
    [ ok : {FALSE}, sql : {JsUndefined}, explanation : {""}, usage : {<<>>},
      error : {"Gemini API error: quota exceeded",
               "No valid JSON object found in response"} ]
    \cup
    [ ok : {TRUE}, sql : GeneratedSqls, explanation : {"All orders"},
      usage : Usages([inputTokens |-> 120, outputTokens |-> 30]), error : {""} ]

Cell(column, value) == [column |-> column, value |-> value]

\* the rows an executor resolves with
RowSets ==
    { <<>>,
      << <<Cell("count", JsNumber(1247))>> >>,
      << <<Cell("city", JsNull)>> >>,
      << <<>> >>,
      << <<Cell("id", JsNumber(1)), Cell("city", JsString("Tokyo"))>> >>,
      << <<Cell("id", JsNumber(1))>>, <<Cell("id", JsNumber(2))>> >> }

\* what executeQuery settles with: rows, or a thrown value
ExecuteReplies ==
    [ ok : {TRUE}, rows : RowSets, thrown : {JsUndefined} ]
    \cup
    [ ok : {FALSE}, rows : {<<>>},
      thrown : { JsError("connection refused"),
                 JsErrorObject("permission denied for table orders"),
                 JsString("boom") } ]

\* what the model call of formatQueryResults settles with
FormatReplies ==
    [ ok : {FALSE}, answer : {""}, usage : {<<>>},
      error : {"Gemini API error: overloaded"} ]
    \cup
    [ ok : {TRUE}, answer : {"There were 1,247 orders."},
      usage : Usages([inputTokens |-> 200, outputTokens |-> 40]), error : {""} ]

Init ==
    /\ inv = [i \in Invocations |-> IdleInvocation]
    /\ vsql = ""
    /\ vmaxRows = JsUndefined
    /\ vvalidation = <<>>
    /\ vsafeSql = <<>>
    /\ PureAtRest
    /\ SchemaAtRest
    /\ HttpAtRest

\* askDatabase(options) up to its first await: the options are destructured,
\* the timer is set, executeAskDatabase calls generateSql, which throws on a
\* falsy schema and otherwise calls the model
askDatabase(idle, options) ==
    LET r == [idle EXCEPT
                !.options = <<options>>,
                !.maxRows = WithDefault(options.maxRows, JsNumber(DefaultMaxRows)),
                !.shouldFormat = Truthy(WithDefault(options.formatResults, JsBoolean(TRUE))),
                !.timeout = WithDefault(options.timeout, JsNumber(DefaultTimeout)),
                !.timer = "armed"]
    IN  IF ~Truthy(options.schema)
        THEN Throw(r, SchemaRequiredMessage)
        ELSE [r EXCEPT !.pc = "generateSql",
                       !.calls = Append(@, "generateObject")]

\* a caller invokes askDatabase(options)
Call(i, options) ==
    /\ inv[i].pc = "idle"
    /\ inv' = [inv EXCEPT ![i] = askDatabase(inv[i], options)]
    /\ UNCHANGED <<sqlVars, pureVars, schemaVars, httpVars>>

\* GenerationFailed with the model's error wrapped in a message of the stage
GenerationFailedWrapped(r, reply) ==
    Throw(r, "sql generation failed: " \o reply.error)

\* await generateSql(...) throws what the model call threw
GenerationFailed(r, reply) == Throw(r, reply.error)

\* LimitAndExecute with executeQuery started on the generator's SQL before
\* the limit is added
ExecuteThenLimit(r) ==
    LET safeSql == addSafetyLimits(r.sqlResult[1].sql.s, r.maxRows)
    IN  [r EXCEPT !.pc = "executeQuery",
                  !.safeSql = <<safeSql>>,
                  !.calls = @ \o <<"executeQuery", "addSafetyLimits">>,
                  !.executed = Append(@, r.sqlResult[1].sql.s)]

\* const safeSql = addSafetyLimits(sqlResult.sql, maxRows);
\* rawData = await executeQuery(safeSql), up to the await
LimitAndExecute(r) ==
    LET safeSql == addSafetyLimits(r.sqlResult[1].sql.s, r.maxRows)
    IN  [r EXCEPT !.pc = "executeQuery",
                  !.safeSql = <<safeSql>>,
                  !.calls = @ \o <<"addSafetyLimits", "executeQuery">>,
                  !.executed = Append(@, safeSql)]

\* ValidateAndExecute with the verdict of validateSql ignored
ValidateAndExecuteAnyway(r, sqlResult) ==
    LimitAndExecute([r EXCEPT !.sqlResult = <<sqlResult>>,
                              !.validation = <<validateSql(sqlResult.sql)>>,
                              !.calls = Append(@, "validateSql")])

\* const validation = validateSql(sqlResult.sql);
\* if (!validation.valid) throw new Error(...); and then the next steps
ValidateAndExecute(r, sqlResult) ==
    LET validation == validateSql(sqlResult.sql)
        validated == [r EXCEPT !.sqlResult = <<sqlResult>>,
                               !.validation = <<validation>>,
                               !.calls = Append(@, "validateSql")]
    IN  IF ~validation.valid
        THEN Throw(validated, InvalidSqlMessage(validation))
        ELSE LimitAndExecute(validated)

\* the model call of generateSql settles: a failure is rethrown; a reply is
\* validated, limited and handed to executeQuery
GenerateSettles(i, reply) ==
    /\ inv[i].pc = "generateSql"
    /\ LET r == [inv[i] EXCEPT !.generated = <<reply>>]
           sqlResult == [sql |-> reply.sql, explanation |-> reply.explanation,
                         usage |-> reply.usage]
       IN  inv' = [inv EXCEPT ![i] =
                IF ~reply.ok
                THEN GenerationFailed(r, reply)
                ELSE ValidateAndExecute(r, sqlResult)]
    /\ UNCHANGED <<sqlVars, pureVars, schemaVars, httpVars>>

\* ExecuteSettles with a failed executeQuery tried a second time
ExecuteSettlesRetrying(i, reply) ==
    /\ inv[i].pc = "executeQuery"
    /\ LET r == [inv[i] EXCEPT !.executeReply = <<reply>>]
           got == [r EXCEPT !.rawData = <<reply.rows>>]
       IN  inv' = [inv EXCEPT ![i] =
                IF ~reply.ok /\ Len(r.executed) < 2
                THEN [r EXCEPT !.calls = Append(@, "executeQuery"),
                               !.executed = Append(@, r.safeSql[1])]
                ELSE IF ~reply.ok
                THEN Throw(r, ExecutionFailedMessage(reply.thrown))
                ELSE IF r.shouldFormat
                THEN [got EXCEPT !.pc = "formatQueryResults",
                                 !.calls = Append(@, "generateText")]
                ELSE Return(got, DefaultAnswer(reply.rows), <<>>)]
    /\ UNCHANGED <<sqlVars, pureVars, schemaVars, httpVars>>

\* executeQuery settles: a thrown value is wrapped; rows are formatted by the
\* model when formatResults is on, and by DefaultAnswer otherwise
ExecuteSettles(i, reply) ==
    /\ inv[i].pc = "executeQuery"
    /\ LET r == [inv[i] EXCEPT !.executeReply = <<reply>>]
           got == [r EXCEPT !.rawData = <<reply.rows>>]
       IN  inv' = [inv EXCEPT ![i] =
                IF ~reply.ok
                THEN Throw(r, ExecutionFailedMessage(reply.thrown))
                ELSE IF r.shouldFormat
                THEN [got EXCEPT !.pc = "formatQueryResults",
                                 !.calls = Append(@, "generateText")]
                ELSE Return(got, DefaultAnswer(reply.rows), <<>>)]
    /\ UNCHANGED <<sqlVars, pureVars, schemaVars, httpVars>>

\* FormatSettles with a failed model call answered by DefaultAnswer
FormatSettlesFallback(i, reply) ==
    /\ inv[i].pc = "formatQueryResults"
    /\ LET r == [inv[i] EXCEPT !.formatReply = <<reply>>]
       IN  inv' = [inv EXCEPT ![i] =
                IF ~reply.ok
                THEN Return(r, DefaultAnswer(r.rawData[1]), <<>>)
                ELSE Return(r, reply.answer, reply.usage)]
    /\ UNCHANGED <<sqlVars, pureVars, schemaVars, httpVars>>

\* the model call of formatQueryResults settles
FormatSettles(i, reply) ==
    /\ inv[i].pc = "formatQueryResults"
    /\ LET r == [inv[i] EXCEPT !.formatReply = <<reply>>]
       IN  inv' = [inv EXCEPT ![i] =
                IF ~reply.ok
                THEN Throw(r, reply.error)
                ELSE Return(r, reply.answer, reply.usage)]
    /\ UNCHANGED <<sqlVars, pureVars, schemaVars, httpVars>>

\* TimerFires with one timeout promise shared by all invocations
TimerFiresShared(i) ==
    /\ inv[i].timer = "armed"
    /\ inv' = [j \in Invocations |->
                [inv[j] EXCEPT !.timer = IF j = i THEN "fired" ELSE @,
                               !.outcome = IF @.state = "pending" /\ inv[j].pc # "idle"
                                           THEN Rejected(TimeoutMessage(inv[i].timeout))
                                           ELSE @]]
    /\ UNCHANGED <<sqlVars, pureVars, schemaVars, httpVars>>

\* TimerFires with the timeout reported whatever the pipeline has done
TimerFiresOverriding(i) ==
    /\ inv[i].timer = "armed"
    /\ inv' = [inv EXCEPT ![i] =
                [@ EXCEPT !.timer = "fired",
                          !.outcome = Rejected(TimeoutMessage(inv[i].timeout))]]
    /\ UNCHANGED <<sqlVars, pureVars, schemaVars, httpVars>>

\* TimerFires with a callback that rejects nothing
TimerFiresSilently(i) ==
    /\ inv[i].timer = "armed"
    /\ inv' = [inv EXCEPT ![i] = [@ EXCEPT !.timer = "fired"]]
    /\ UNCHANGED <<sqlVars, pureVars, schemaVars, httpVars>>

\* the callback of setTimeout runs: timeoutPromise rejects
TimerFires(i) ==
    /\ inv[i].timer = "armed"
    /\ inv' = [inv EXCEPT ![i] =
                [@ EXCEPT !.timer = "fired",
                          !.outcome = IF @.state = "pending"
                                      THEN Rejected(TimeoutMessage(inv[i].timeout))
                                      ELSE @]]
    /\ UNCHANGED <<sqlVars, pureVars, schemaVars, httpVars>>

\* the callers of Spec: one invocation
Callers == {"a"}

Next ==
    \E i \in Callers :
        \/ \E options \in AskDatabaseOptions : Call(i, options)
        \/ \E reply \in GenerateReplies : GenerateSettles(i, reply)
        \/ \E reply \in ExecuteReplies : ExecuteSettles(i, reply)
        \/ \E reply \in FormatReplies : FormatSettles(i, reply)
        \/ TimerFires(i)

Spec == Init /\ [][Next]_vars

(***************************************************************************)
(* Properties of askDatabase, checked under Spec.                          *)
(***************************************************************************)
Called(r, name) == \E k \in 1..Len(r.calls) : r.calls[k] = name

\* the caller of invocation r has the timeout error
TimedOut(r) ==
    /\ r.timer = "fired"
    /\ r.outcome = Rejected("Query timed out after " \o ToString(r.timeout.n) \o "ms")

\* C3: when validateSql reports the generated SQL invalid, the pipeline rejects
\* with "Generated SQL is invalid: <reason>", which is what the caller gets
\* unless the timeout was reported first, and neither executeQuery nor the
\* formatter is ever invoked; executeQuery is only ever invoked with the
\* limited form of a candidate that validateSql accepted.
C3_InvalidSqlNeverExecuted ==
    \A i \in Invocations :
        LET r == inv[i]
        IN  /\ (r.validation # <<>> /\ ~r.validation[1].valid) =>
                  /\ r.pipeline = Rejected("Generated SQL is invalid: " \o r.validation[1].error)
                  /\ r.outcome = r.pipeline \/ TimedOut(r)
                  /\ r.executed = <<>>
                  /\ ~Called(r, "executeQuery")
                  /\ ~Called(r, "generateText")
            /\ r.executed # <<>> =>
                  /\ r.generated # <<>>
                  /\ validateSql(r.generated[1].sql).valid
                  /\ r.executed = <<addSafetyLimits(r.generated[1].sql.s, r.maxRows)>>

\* C3 witness: the model's reply with a DROP TABLE has been rejected and the
\* pipeline has finished
C3_Witness ==
    LET r == inv["a"]
    IN  /\ r.generated # <<>>
        /\ r.generated[1].sql = JsString("SELECT 1; DROP TABLE orders")
        /\ r.outcome = Rejected("Generated SQL is invalid: Query contains blocked keyword: DROP")
        /\ r.pc = "finished"

\* C4: if the timer fires before the pipeline has completed, askDatabase
\* rejects with exactly "Query timed out after <timeout>ms" (30000 when the
\* option is absent), and the caller never receives a result for that
\* invocation, whichever stage was in flight and whatever the pipeline does
\* afterwards.
C4_TimeoutWins ==
    [][\A i \in Invocations :
          /\ ( /\ inv[i].timer = "armed"
               /\ inv'[i].timer = "fired"
               /\ inv[i].pipeline.state = "pending" )
             => /\ inv'[i].outcome.state = "rejected"
                /\ inv'[i].outcome.value = <<>>
                /\ inv'[i].outcome.error =
                      IF inv[i].options[1].timeout = JsUndefined
                      THEN "Query timed out after 30000ms"
                      ELSE "Query timed out after " \o ToString(inv[i].options[1].timeout.n) \o "ms"
          /\ TimedOut(inv[i]) => inv'[i].outcome = inv[i].outcome
      ]_vars

\* C4 witness: the timer fired during execution, the caller has the timeout
\* error, and the pipeline has since finished with a result
C4_Witness ==
    LET r == inv["a"]
    IN  /\ r.outcome = Rejected("Query timed out after 50ms")
        /\ r.pipeline.state = "fulfilled"
        /\ r.executed # <<>>

\* C7: whenever executeQuery throws or rejects, askDatabase rejects with
\* "SQL execution failed: <original message>", the message of the thrown
\* value kept, be it an Error or a plain object with a message field, and the
\* formatter is not invoked.
C7_ExecutionErrorKeepsMessage ==
    \A i \in Invocations :
        LET r == inv[i]
        IN  ( /\ r.executeReply # <<>>
              /\ ~r.executeReply[1].ok
              /\ r.executeReply[1].thrown.t \in {"Error", "object"} )
            => /\ r.pipeline = Rejected("SQL execution failed: " \o r.executeReply[1].thrown.s)
               /\ ~Called(r, "generateText")

\* C8 as claimed: when the model call of SQL generation fails, or the model
\* returns an object with a missing or non-string sql field, askDatabase fails
\* with "sql generation failed: ..." carrying the model's error text, and the
\* validator and the executor are not reached.
C8_GenerationFailureWrapped ==
    \A i \in Invocations :
        LET r == inv[i]
        IN  (r.generated # <<>> /\ (~r.generated[1].ok \/ r.generated[1].sql.t # "string"))
            => /\ r.pipeline.state = "rejected"
               /\ StartsWith(r.pipeline.error, "sql generation failed: ")
               /\ Includes(r.pipeline.error, r.generated[1].error)
               /\ ~Called(r, "validateSql")
               /\ ~Called(r, "executeQuery")

\* C8 as amended: when the model call of SQL generation fails, the pipeline
\* rejects with the model call's own error, unwrapped, and neither the
\* validator nor the executor is reached; when the model returns an object
\* with a missing or non-string sql field, the validator is reached and
\* rejects it, the pipeline rejects with "Generated SQL is invalid: SQL query
\* is required", and the executor is not reached.
C8_GenerationFailure ==
    \A i \in Invocations :
        LET r == inv[i]
        IN  r.generated # <<>> =>
               /\ ~r.generated[1].ok =>
                     /\ r.pipeline = Rejected(r.generated[1].error)
                     /\ r.calls = <<"generateObject">>
               /\ (r.generated[1].ok /\ r.generated[1].sql.t # "string") =>
                     /\ r.pipeline = Rejected("Generated SQL is invalid: SQL query is required")
                     /\ r.calls = <<"generateObject", "validateSql">>

\* C8 witness: the model replied without an sql field and the caller has the
\* validator's error
C8_Witness ==
    LET r == inv["a"]
    IN  /\ r.generated # <<>>
        /\ r.generated[1].ok
        /\ r.generated[1].sql = JsUndefined
        /\ r.outcome = Rejected("Generated SQL is invalid: SQL query is required")

\* C9: when askDatabase is called with a missing or empty question, or a
\* missing or empty schema, the error is surfaced immediately and no stage is
\* entered: the model is not called, and neither the validator, the executor
\* nor the formatter runs.
C9_InputErrorBeforeAnyStage ==
    \A i \in Invocations :
        LET r == inv[i]
        IN  ( /\ r.options # <<>>
              /\ \/ r.options[1].question \in {JsUndefined, JsString("")}
                 \/ r.options[1].schema \in {JsUndefined, JsString("")} )
            => /\ r.outcome.state = "rejected"
               /\ r.calls = <<>>

\* the text of a cell's value in the answer
ValueText(v) ==
    CASE v.t = "number" -> ToString(v.n)
      [] v.t = "string" -> v.s
      [] v.t = "null" -> "null"

\* C10: with formatResults = false no formatting model call is made and the
\* answer is decided by the rows alone: "No results found." for zero rows,
\* "Result: <value>" for exactly one row with exactly one column, and
\* "Found <N> result(s)." with N the row count for every other shape.
C10_DefaultAnswer ==
    \A i \in Invocations :
        LET r == inv[i]
        IN  (r.options # <<>> /\ r.options[1].formatResults = JsBoolean(FALSE)) =>
               /\ ~Called(r, "generateText")
               /\ r.pipeline.state = "fulfilled" =>
                     LET rows == r.executeReply[1].rows
                         answer == r.pipeline.value[1].answer
                     IN  /\ Len(rows) = 0 => answer = "No results found."
                         /\ (Len(rows) = 1 /\ Len(rows[1]) = 1) =>
                               answer = "Result: " \o ValueText(rows[1][1].value)
                         /\ (Len(rows) > 1 \/ (Len(rows) = 1 /\ Len(rows[1]) # 1)) =>
                               answer = "Found " \o ToString(Len(rows)) \o " result(s)."

\* C10 witness: the count query answered with one row of one column
C10_Witness ==
    LET r == inv["a"]
    IN  /\ r.options # <<>>
        /\ r.options[1].formatResults = JsBoolean(FALSE)
        /\ r.outcome.state = "fulfilled"
        /\ r.outcome.value[1].sql = "SELECT COUNT(*) FROM orders"
        /\ r.outcome.value[1].rawData = << <<Cell("count", JsNumber(1247))>> >>
        /\ r.outcome.value[1].answer = "Result: 1247"

\* C11: on success the result's sql is exactly the string handed to
\* executeQuery, the output of addSafetyLimits and not the generator's raw
\* SQL, rawData is exactly what the executor returned, and explanation is the
\* generator's explanation.
C11_ResultFields ==
    \A i \in Invocations :
        LET r == inv[i]
        IN  r.pipeline.state = "fulfilled" =>
               LET result == r.pipeline.value[1]
               IN  /\ r.executed = <<result.sql>>
                   /\ result.sql = addSafetyLimits(r.generated[1].sql.s, r.maxRows)
                   /\ result.rawData = r.executeReply[1].rows
                   /\ result.explanation = r.generated[1].explanation

\* C11 witness: the caller has a result whose sql is the limited form of the
\* generator's SQL, and the rows of the executor
C11_Witness ==
    LET r == inv["a"]
    IN  /\ r.outcome.state = "fulfilled"
        /\ r.generated[1].sql = JsString("SELECT * FROM orders;")
        /\ r.executed = <<"SELECT * FROM orders LIMIT 5">>
        /\ r.outcome.value[1].sql = "SELECT * FROM orders LIMIT 5"
        /\ r.outcome.value[1].rawData = << <<Cell("id", JsNumber(1))>>, <<Cell("id", JsNumber(2))>> >>
        /\ r.outcome.value[1].explanation = "All orders"

\* the token counts of a model call's reply, an absent usage counted as zero
TokensOf(usage) == IF usage = <<>> THEN [inputTokens |-> 0, outputTokens |-> 0] ELSE usage[1]

\* C12: in every successful result usage.total is the element-wise sum of the
\* generator's and the formatter's token counts, an absent usage counted as
\* zero, and usage.formatting is present exactly when the formatting stage
\* ran.
C12_UsageTotals ==
    \A i \in Invocations :
        LET r == inv[i]
        IN  r.pipeline.state = "fulfilled" =>
               LET usage == r.pipeline.value[1].usage
                   generation == TokensOf(r.generated[1].usage)
                   formatting == IF r.formatReply = <<>> THEN TokensOf(<<>>)
                                 ELSE TokensOf(r.formatReply[1].usage)
               IN  /\ usage.total.inputTokens = generation.inputTokens + formatting.inputTokens
                   /\ usage.total.outputTokens = generation.outputTokens + formatting.outputTokens
                   /\ usage.sqlGeneration = generation
                   /\ (usage.formatting # <<>>) <=> Called(r, "generateText")
                   /\ Called(r, "generateText") <=>
                         r.options[1].formatResults \in {JsUndefined, JsBoolean(TRUE)}
                   /\ usage.formatting # <<>> => usage.formatting[1] = formatting

\* C12 witness: both model calls reported usage and the total is their sum
C12_Witness ==
    LET r == inv["a"]
    IN  /\ r.outcome.state = "fulfilled"
        /\ r.generated[1].usage = <<[inputTokens |-> 120, outputTokens |-> 30]>>
        /\ r.formatReply # <<>>
        /\ r.formatReply[1].usage = <<[inputTokens |-> 200, outputTokens |-> 40]>>
        /\ r.outcome.value[1].usage.total = [inputTokens |-> 320, outputTokens |-> 70]

(***************************************************************************)
(* Further properties of the validator, checked under SpecSql.             *)
(***************************************************************************)
\* keyword occurs in s, in any letter case, as a whole word or not
ContainsAnywhere(keyword, s) ==
    LET upper == ToUpperCase(s)
    IN  \E i \in 1..(Len(s) - Len(keyword) + 1) :
            SubSeq(upper, i, i + Len(keyword) - 1) = keyword

\* s holds the text of a comment opener
ContainsCommentText(s) ==
    \E i \in 1..(Len(s) - 1) : SubSeq(s, i, i + 1) \in {"--", "/*"}

\* s holds, in any letter case, one of the sensitive names
ContainsSensitiveText(s) ==
    \E name \in {"password", "stripe_customer", "api_key", "secret",
                 "auth.users", "pg_catalog", "information_schema"} :
        LET lower == [c \in CharsOf(UpperLetters) |->
                         CharAt(LowerLetters,
                                CHOOSE k \in 1..26 : CharAt(UpperLetters, k) = c)]
        IN  \E i \in 1..(Len(s) - Len(name) + 1) :
                \A k \in 1..Len(name) :
                    LET c == CharAt(s, i + k - 1)
                    IN  (IF c \in DOMAIN lower THEN lower[c] ELSE c) = CharAt(name, k)

\* C13: validateSql never rejects a query solely because a blocked keyword
\* occurs inside a longer word of letters, digits and underscores: when every
\* occurrence of a blocked keyword in the string is part of a longer word and
\* the string violates no other rule, the result is valid; and a keyword is
\* only ever named in the error when it occurs as a whole word.
C13_SubstringKeywordAccepted ==
    vvalidation # <<>> =>
        /\ ( /\ BeginsWithSelectOrWith(vsql)
             /\ \E k \in 1..Len(BLOCKED_KEYWORDS) : ContainsAnywhere(BLOCKED_KEYWORDS[k], vsql)
             /\ \A k \in 1..Len(BLOCKED_KEYWORDS) : ~ContainsWholeWord(BLOCKED_KEYWORDS[k], vsql)
             /\ ~ContainsSensitiveText(vsql)
             /\ ~SemicolonBeforeLastChar(vsql)
             /\ ~ContainsCommentText(vsql) )
           => vvalidation[1] = [valid |-> TRUE, error |-> ""]
        /\ \A k \in 1..Len(BLOCKED_KEYWORDS) :
              vvalidation[1].error = "Query contains blocked keyword: " \o BLOCKED_KEYWORDS[k]
              => ContainsWholeWord(BLOCKED_KEYWORDS[k], vsql)

\* C13 witness: the query of the quoted column inserted_at has been accepted
C13_Witness ==
    /\ vsql = "SELECT \"inserted_at\" FROM t"
    /\ vvalidation = <<[valid |-> TRUE, error |-> ""]>>

\* the characters of s from the first that is not white space on
AfterLeadingWhiteSpace(s) ==
    LET first == {i \in 1..Len(s) : CharAt(s, i) \notin {" ", "\t", "\n", "\r"}}
    IN  IF first = {} THEN ""
        ELSE SubSeq(s, CHOOSE i \in first : \A j \in first : i <= j, Len(s))

\* s begins, in any letter case, with word
BeginsWithIgnoringCase(s, word) ==
    /\ Len(s) >= Len(word)
    /\ \A k \in 1..Len(word) :
          \/ CharAt(s, k) = CharAt(word, k)
          \/ \E j \in 1..26 : CharAt(s, k) = CharAt(LowerLetters, j)
                              /\ CharAt(word, k) = CharAt(UpperLetters, j)

\* C14: the statement-type check passes exactly for the strings that, leading
\* white space trimmed and letter case ignored, begin with SELECT or WITH;
\* every other non-empty string is rejected with "Query must be a SELECT
\* statement", and no string that begins so is.
C14_StatementType ==
    (vvalidation # <<>> /\ vsql # "") =>
        LET rest == AfterLeadingWhiteSpace(vsql)
            begins == BeginsWithIgnoringCase(rest, "SELECT") \/ BeginsWithIgnoringCase(rest, "WITH")
        IN  /\ ~begins => vvalidation[1] = [valid |-> FALSE, error |-> "Query must be a SELECT statement"]
            /\ begins => vvalidation[1].error # "Query must be a SELECT statement"

\* C14 witness: a query in lower case after white space has passed the check,
\* and been accepted
C14_Witness ==
    /\ vsql = " \nselect"
    /\ vvalidation = <<[valid |-> TRUE, error |-> ""]>>

\* the reason of the first check, in the order empty input, statement type,
\* blocked keywords, sensitive patterns, multiple statements, comments, that
\* s violates; "" when s violates none
FirstViolatedReason(s) ==
    LET rest == AfterLeadingWhiteSpace(s)
    IN  IF s = "" THEN "SQL query is required"
        ELSE IF ~(BeginsWithIgnoringCase(rest, "SELECT") \/ BeginsWithIgnoringCase(rest, "WITH"))
        THEN "Query must be a SELECT statement"
        ELSE IF \E k \in 1..Len(BLOCKED_KEYWORDS) : ContainsWholeWord(BLOCKED_KEYWORDS[k], s)
        THEN "Query contains blocked keyword: "
        ELSE IF ContainsSensitiveText(s) THEN "Query attempts to access sensitive data"
        ELSE IF SemicolonBeforeLastChar(s) THEN "Multiple statements not allowed"
        ELSE IF ContainsCommentText(s) THEN "SQL comments not allowed"
        ELSE ""

\* C15: validateSql applies its checks in the order empty input, statement
\* type, blocked keywords, sensitive patterns, multiple statements, comments;
\* the error is always the reason of the first check in that order that the
\* input violates, and the result is valid exactly when the input violates
\* none of them.
C15_FirstViolatedCheckWins ==
    vvalidation # <<>> =>
        LET reason == FirstViolatedReason(vsql)
        IN  /\ vvalidation[1].valid <=> reason = ""
            /\ reason = "Query contains blocked keyword: " =>
                  /\ Len(vvalidation[1].error) > Len(reason)
                  /\ SubSeq(vvalidation[1].error, 1, Len(reason)) = reason
            /\ reason # "Query contains blocked keyword: " => vvalidation[1].error = reason

(***************************************************************************)
(* SpecPure: validateSql called again and again, with the state that       *)
(* outlives a call: the RegExp objects of SENSITIVE_PATTERNS, created once *)
(* when the module is loaded.  The RegExp of a blocked keyword is created  *)
(* anew in every iteration of every call and holds no state between calls. *)
(***************************************************************************)
\* the flags of the SENSITIVE_PATTERNS, were they global as well
SensitiveFlagsGlobal == "gi"

\* the flags of the regular expression literals of SENSITIVE_PATTERNS
SENSITIVE_FLAGS == "i"

\* RegExp.prototype.test of /literal/flags at lastIndex: a global expression
\* searches from lastIndex and leaves the end of its match, or 0, there; any
\* other searches from 0 and leaves lastIndex alone
RegExpTest(literal, flags, lastIndex, s) ==
    LET global == Includes(flags, "g")
        start == IF global THEN lastIndex ELSE 0
        found == {i \in Occurrences(ToUpperCase(s), ToUpperCase(literal)) : i - 1 >= start}
        first == CHOOSE i \in found : \A j \in found : i <= j
    IN  IF found = {}
        THEN [matched |-> FALSE, lastIndex |-> IF global THEN 0 ELSE lastIndex]
        ELSE [matched |-> TRUE,
              lastIndex |-> IF global THEN first - 1 + Len(literal) ELSE lastIndex]

\* for (const pattern of SENSITIVE_PATTERNS) if (pattern.test(sql)) return ...,
\* from the k-th pattern on: whether one matched, and the lastIndex of each
\* pattern afterwards
RECURSIVE SensitiveLoop(_, _, _)
SensitiveLoop(k, lastIndexes, sql) ==
    IF k > Len(SENSITIVE_PATTERNS) THEN [matched |-> FALSE, lastIndexes |-> lastIndexes]
    ELSE LET test == RegExpTest(SENSITIVE_PATTERNS[k], SENSITIVE_FLAGS, lastIndexes[k], sql)
             after == [lastIndexes EXCEPT ![k] = test.lastIndex]
         IN  IF test.matched THEN [matched |-> TRUE, lastIndexes |-> after]
             ELSE SensitiveLoop(k + 1, after, sql)

\* one call of validateSql(sql) with the patterns as the calls before left
\* them: its result, and the lastIndex of each pattern afterwards
validateSqlCall(lastIndexes, sql) ==
    IF sql.t # "string" \/ sql.s = ""
    THEN [result |-> InvalidResult("SQL query is required"), lastIndexes |-> lastIndexes]
    ELSE IF NotSelectStatement(sql.s)
    THEN [result |-> InvalidResult("Query must be a SELECT statement"), lastIndexes |-> lastIndexes]
    ELSE IF BlockedMatches(sql.s) # {}
    THEN [result |-> InvalidResult("Query contains blocked keyword: " \o FirstBlockedKeyword(sql.s)),
          lastIndexes |-> lastIndexes]
    ELSE LET sensitive == SensitiveLoop(1, lastIndexes, sql.s)
         IN  [result |-> IF sensitive.matched
                         THEN InvalidResult("Query attempts to access sensitive data")
                         ELSE IF HasMultipleStatements(sql.s)
                         THEN InvalidResult("Multiple statements not allowed")
                         ELSE IF HasComment(sql.s)
                         THEN InvalidResult("SQL comments not allowed")
                         ELSE ValidResult,
              lastIndexes |-> sensitive.lastIndexes]

\* the strings validateSql is called on, in any order, any number of times
PureInputs ==
    { "SELECT password FROM users",
      "select id, PASSWORD, password from users",
      "SELECT secret, api_key FROM t",
      "SELECT * FROM orders",
      "SELECT updated_at FROM t",
      "SELECT 1; SELECT 2",
      "SELECT 1 -- password",
      "DROP TABLE orders",
      "" }

InitPure ==
    /\ inv = [i \in Invocations |-> IdleInvocation]
    /\ vsql = ""
    /\ vmaxRows = JsUndefined
    /\ vvalidation = <<>>
    /\ vsafeSql = <<>>
    /\ PureAtRest
    /\ SchemaAtRest
    /\ HttpAtRest

\* validateSql(sql): the result joins the log
ValidateCall(sql) ==
    LET call == validateSqlCall(regexLastIndex, JsString(sql))
    IN  /\ regexLastIndex' = call.lastIndexes
        /\ validateLog' = validateLog \cup {[sql |-> sql, result |-> call.result]}
        /\ UNCHANGED <<sqlVars, inv, schemaVars, httpVars>>

NextPure == \E sql \in PureInputs : ValidateCall(sql)

SpecPure == InitPure /\ [][NextPure]_vars

\* C16: validateSql is a pure function: called any number of times on the
\* same string, interleaved with calls on other strings, it always yields the
\* same result, the one a first call yields, and no state such as the
\* lastIndex of a regular expression carries over between calls.
C16_ValidateSqlPure ==
    /\ \A p, q \in validateLog : p.sql = q.sql => p.result = q.result
    /\ \A p \in validateLog : p.result = validateSql(JsString(p.sql))
    /\ \A k \in 1..Len(SENSITIVE_PATTERNS) : regexLastIndex[k] = 0

\* C16 witness: every input has been validated, the ones that reach the
\* sensitive patterns among them
C16_Witness ==
    /\ {p.sql : p \in validateLog} = PureInputs
    /\ [sql |-> "select id, PASSWORD, password from users",
        result |-> [valid |-> FALSE, error |-> "Query attempts to access sensitive data"]]
          \in validateLog
    /\ [sql |-> "SELECT * FROM orders", result |-> [valid |-> TRUE, error |-> ""]] \in validateLog

(***************************************************************************)
(* Further properties of askDatabase, checked under Spec.                  *)
(***************************************************************************)
\* how often name was called by invocation r
TimesCalled(r, name) == Cardinality({k \in 1..Len(r.calls) : r.calls[k] = name})

\* C17: no stage is retried: within one invocation the SQL generator, the
\* executeQuery callback and the formatter are each invoked at most once, and
\* a failure in any stage ends the invocation in failure with no later stage
\* running: once the pipeline has failed nothing more is called and the
\* failure stays.
C17_NoRetry ==
    [][\A i \in Invocations :
          LET r == inv[i]
              after == inv'[i]
          IN  /\ TimesCalled(after, "generateObject") <= 1
              /\ TimesCalled(after, "executeQuery") <= 1
              /\ TimesCalled(after, "generateText") <= 1
              /\ Len(after.executed) <= 1
              /\ (after.generated # <<>> /\ ~after.generated[1].ok) =>
                    after.pipeline.state = "rejected" /\ after.calls = <<"generateObject">>
              /\ (after.executeReply # <<>> /\ ~after.executeReply[1].ok) =>
                    after.pipeline.state = "rejected" /\ ~Called(after, "generateText")
              /\ (after.formatReply # <<>> /\ ~after.formatReply[1].ok) =>
                    after.pipeline.state = "rejected"
              /\ after.pipeline.state = "rejected" =>
                    after.pc = "finished" /\ after.outcome.state = "rejected"
              /\ r.pipeline.state = "rejected" =>
                    /\ after.calls = r.calls
                    /\ after.executed = r.executed
                    /\ after.pipeline = r.pipeline
      ]_vars

\* C17 witness: executeQuery failed after one call and the invocation ended
\* in failure
C17_Witness ==
    LET r == inv["a"]
    IN  /\ r.executeReply # <<>>
        /\ ~r.executeReply[1].ok
        /\ r.calls = <<"generateObject", "validateSql", "addSafetyLimits", "executeQuery">>
        /\ r.outcome = Rejected("SQL execution failed: connection refused")
        /\ r.timer = "fired"

\* the calls of one invocation, in the order of the stages generate,
\* validate, limit, execute, format
StageOrder ==
    <<"generateObject", "validateSql", "addSafetyLimits", "executeQuery", "generateText">>

\* C18: the stages of one invocation run strictly in the order generate,
\* validate, limit, execute, format: the executor is invoked only after the
\* generator call has settled and validation has returned valid, with the
\* limited SQL; the formatter is invoked only after the executor has resolved
\* with rows; no stage starts before the output of the stage before exists.
C18_StageOrder ==
    \A i \in Invocations :
        LET r == inv[i]
        IN  /\ Len(r.calls) <= Len(StageOrder)
            /\ r.calls = SubSeq(StageOrder, 1, Len(r.calls))
            /\ Called(r, "validateSql") =>
                  r.generated # <<>> /\ r.generated[1].ok /\ r.sqlResult # <<>>
            /\ Called(r, "addSafetyLimits") =>
                  r.validation = <<[valid |-> TRUE, error |-> ""]>>
            /\ Called(r, "executeQuery") =>
                  /\ r.safeSql # <<>>
                  /\ r.executed = r.safeSql
            /\ Called(r, "generateText") =>
                  /\ r.executeReply # <<>>
                  /\ r.executeReply[1].ok
                  /\ r.rawData = <<r.executeReply[1].rows>>
            /\ r.pipeline.state = "fulfilled" =>
                  /\ r.executeReply # <<>> /\ r.executeReply[1].ok
                  /\ Called(r, "generateText") => (r.formatReply # <<>> /\ r.formatReply[1].ok)

\* C18 witness: an invocation that went through all five stages
C18_Witness ==
    LET r == inv["a"]
    IN  /\ r.calls = StageOrder
        /\ r.outcome.state = "fulfilled"
        /\ r.outcome.value[1].answer = "There were 1,247 orders."

(***************************************************************************)
(* SpecConc: two invocations of askDatabase in flight at once, their       *)
(* steps interleaved in every order.                                       *)
(***************************************************************************)
\* the options of the two requests: one with every option given, one with
\* the defaults
ConcOptions ==
    { [ question |-> JsString("How many orders?"), schema |-> JsString("## orders"),
        maxRows |-> JsNumber(5), formatResults |-> JsBoolean(FALSE),
        timeout |-> JsNumber(50) ],
      [ question |-> JsString("How many orders?"), schema |-> JsObject,
        maxRows |-> JsUndefined, formatResults |-> JsUndefined,
        timeout |-> JsUndefined ] }

ConcGenerateReplies ==
    {reply \in GenerateReplies :
        \/ ~reply.ok /\ reply.error = "Gemini API error: quota exceeded"
        \/ /\ reply.ok
           /\ reply.usage # <<>>
           /\ reply.sql \in { JsString("SELECT * FROM orders;"),
                              JsString("SELECT COUNT(*) FROM orders"),
                              JsString("SELECT 1; DROP TABLE orders") }}

ConcExecuteReplies ==
    {reply \in ExecuteReplies :
        \/ ~reply.ok /\ reply.thrown = JsError("connection refused")
        \/ reply.ok /\ reply.rows \in {<<>>, << <<Cell("count", JsNumber(1247))>> >>}}

ConcFormatReplies == {reply \in FormatReplies : reply.ok => reply.usage # <<>>}

NextConc ==
    \E i \in Invocations :
        \/ \E options \in ConcOptions : Call(i, options)
        \/ \E reply \in ConcGenerateReplies : GenerateSettles(i, reply)
        \/ \E reply \in ConcExecuteReplies : ExecuteSettles(i, reply)
        \/ \E reply \in ConcFormatReplies : FormatSettles(i, reply)
        \/ TimerFires(i)

SpecConc == Init /\ [][NextConc]_vars

\* what the caller of invocation r has is decided by r's own values alone:
\* nothing yet, or what r's own pipeline settled with, or the timeout of r's
\* own timer with r's own timeout; and what r handed to its executor is the
\* limited form of r's own generated SQL under r's own maxRows
OwnValuesOnly(r) ==
    /\ r.pc = "idle" => r = IdleInvocation
    /\ r.pc # "idle" =>
          /\ r.maxRows = (IF r.options[1].maxRows = JsUndefined THEN JsNumber(1000)
                          ELSE r.options[1].maxRows)
          /\ r.timeout = (IF r.options[1].timeout = JsUndefined THEN JsNumber(30000)
                          ELSE r.options[1].timeout)
    /\ \/ r.outcome.state = "pending" /\ r.pipeline.state = "pending" /\ r.timer # "fired"
       \/ r.outcome = r.pipeline /\ r.pipeline.state # "pending"
       \/ /\ r.timer = "fired"
          /\ r.outcome = Rejected("Query timed out after " \o ToString(r.timeout.n) \o "ms")
    /\ r.executed # <<>> =>
          r.executed = <<addSafetyLimits(r.generated[1].sql.s, r.maxRows)>>
    /\ r.pipeline.state = "fulfilled" =>
          /\ r.pipeline.value[1].sql = r.executed[1]
          /\ r.pipeline.value[1].rawData = r.executeReply[1].rows
          /\ r.pipeline.value[1].explanation = r.generated[1].explanation

\* C19: concurrent invocations are independent: under every interleaving a
\* step of one invocation, its timeout and its failure included, leaves every
\* other invocation's timer, intermediate values, executed SQL and outcome as
\* they were, and each invocation's outcome and executed SQL are decided by
\* its own options, replies and timer alone, as when it runs alone.
C19_InvocationsIndependent ==
    [][\A i \in Invocations :
          /\ inv'[i] # inv[i] => \A j \in Invocations \ {i} : inv'[j] = inv[j]
          /\ OwnValuesOnly(inv'[i])
      ]_vars

\* C19 witness: one invocation has timed out after 50 ms while the other, in
\* flight at the same time, has its result, with the default limit
C19_Witness ==
    /\ inv["a"].outcome = Rejected("Query timed out after 50ms")
    /\ inv["a"].pipeline.state = "rejected"
    /\ inv["b"].timer = "armed"
    /\ inv["b"].outcome.state = "fulfilled"
    /\ inv["b"].outcome.value[1].sql = "SELECT * FROM orders LIMIT 1000"

(***************************************************************************)
(* SpecSchema: buildSchemaContext on schema configurations.                *)
(***************************************************************************)
\* ColumnRow with every column serialized, sensitive or not
ColumnRowUnfiltered(column) ==
    "| " \o column.name \o " | " \o column.type \o " | "
         \o (IF Truthy(column.description) THEN column.description.s ELSE "") \o " |\n"

\* if (!column.sensitive) context += `| ${name} | ${type} | ${description || ''} |\n`
ColumnRow(column) ==
    IF ~Truthy(column.sensitive)
    THEN "| " \o column.name \o " | " \o column.type \o " | "
              \o (IF Truthy(column.description) THEN column.description.s ELSE "") \o " |\n"
    ELSE ""

\* for (const column of table.columns) ...
RECURSIVE ColumnRows(_)
ColumnRows(columns) ==
    IF columns = <<>> THEN "" ELSE ColumnRow(Head(columns)) \o ColumnRows(Tail(columns))

\* the body of the loop over config.tables
TableSection(table) ==
    "## " \o table.name \o "\n"
    \o (IF Truthy(table.description) THEN table.description.s \o "\n" ELSE "")
    \o "| Column | Type | Description |\n"
    \o "|--------|------|-------------|\n"
    \o ColumnRows(table.columns)
    \o "\n"

RECURSIVE TableSections(_)
TableSections(tables) ==
    IF tables = <<>> THEN "" ELSE TableSection(Head(tables)) \o TableSections(Tail(tables))

RECURSIVE RelationshipLines(_)
RelationshipLines(relationships) ==
    IF relationships = <<>> THEN ""
    ELSE "- " \o Head(relationships) \o "\n" \o RelationshipLines(Tail(relationships))

\* buildSchemaContext(config); relationships is <<>> when absent, and
\* <<the array>> otherwise
buildSchemaContext(config) ==
    "You have access to a PostgreSQL database. Here are the tables and their columns:\n\n"
    \o TableSections(config.tables)
    \o (IF config.relationships # <<>> /\ Len(config.relationships[1]) > 0
        THEN "## Relationships\n" \o RelationshipLines(config.relationships[1])
        ELSE "")
    \o (IF Truthy(config.customInstructions)
        THEN "\n## Additional Instructions\n" \o config.customInstructions.s \o "\n"
        ELSE "")

\* the columns tables are made of: a name with its type and description, and
\* the values of the optional sensitive flag
ColumnSchemas ==
    [ name : {"id"}, type : {"uuid"}, description : {JsString("Primary key")},
      sensitive : {JsUndefined, JsBoolean(FALSE)} ]
    \cup
    [ name : {"email"}, type : {"text"}, description : {JsUndefined},
      sensitive : {JsUndefined, JsBoolean(TRUE)} ]
    \cup
    [ name : {"password_hash"}, type : {"text"}, description : {JsString("bcrypt")},
      sensitive : {JsBoolean(TRUE), JsBoolean(FALSE)} ]

\* the sequences of at most n columns, no name twice
RECURSIVE ColumnLists(_)
ColumnLists(n) ==
    IF n = 0 THEN {<<>>}
    ELSE LET shorter == ColumnLists(n - 1)
         IN  shorter \cup
             UNION {{Append(columns, c) :
                        c \in {d \in ColumnSchemas :
                                 \A k \in 1..Len(columns) : columns[k].name # d.name}} :
                    columns \in shorter}

\* the tables: a name with its optional description, and its columns
TableSchemas ==
    [ name : {"users"}, description : {JsString("User accounts")},
      columns : ColumnLists(MaxColumns) ]
    \cup
    [ name : {"orders"}, description : {JsUndefined}, columns : ColumnLists(MaxColumns) ]

RECURSIVE TableLists(_)
TableLists(n) ==
    IF n = 0 THEN {<<>>}
    ELSE LET shorter == TableLists(n - 1)
         IN  shorter \cup
             UNION {{Append(tables, t) :
                        t \in {u \in TableSchemas :
                                 \A k \in 1..Len(tables) : tables[k].name # u.name}} :
                    tables \in shorter}

SchemaConfigs ==
    [ tables : TableLists(MaxTables),
      relationships : {<<>>, << <<"orders.user_id -> users.id">> >>},
      customInstructions : {JsUndefined, JsString("Times are in UTC")} ]

InitSchema ==
    /\ inv = [i \in Invocations |-> IdleInvocation]
    /\ vsql = ""
    /\ vmaxRows = JsUndefined
    /\ vvalidation = <<>>
    /\ vsafeSql = <<>>
    /\ PureAtRest
    /\ HttpAtRest
    /\ vconfig \in {<<config>> : config \in SchemaConfigs}
    /\ vcontext = <<>>

\* buildSchemaContext(vconfig)
BuildStep ==
    /\ vcontext = <<>>
    /\ vcontext' = <<buildSchemaContext(vconfig[1])>>
    /\ UNCHANGED <<sqlVars, inv, pureVars, vconfig, httpVars>>

NextSchema == BuildStep

SpecSchema == InitSchema /\ [][NextSchema]_vars

\* the lines of text, each under the position of its line end
TextLines(text) ==
    LET ends == {i \in 1..Len(text) : CharAt(text, i) = "\n"}
    IN  [e \in ends |->
            LET before == {i \in ends : i < e}
                start == IF before = {} THEN 1
                         ELSE (CHOOSE i \in before : \A j \in before : j <= i) + 1
            IN  SubSeq(text, start, e - 1)]

\* of the lines, the positions of those under the heading of the table
\* called name, up to the empty line that closes the table
LinesUnder(lines, name) ==
    LET heads == {e \in DOMAIN lines : lines[e] = "## " \o name}
        empty == {e \in DOMAIN lines : lines[e] = ""}
    IN  {e \in DOMAIN lines :
            \E h \in heads : h < e /\ \A b \in empty : ~(h < b /\ b <= e)}

\* the row that serializes column
RowOf(column) ==
    "| " \o column.name \o " | " \o column.type \o " | "
         \o (IF column.description.t = "string" THEN column.description.s ELSE "") \o " |"

\* line is a row whose first cell is name
IsRowFor(line, name) ==
    LET cell == "| " \o name \o " |"
    IN  Len(line) >= Len(cell) /\ SubSeq(line, 1, Len(cell)) = cell

\* C20: buildSchemaContext never serializes a column marked sensitive: under
\* the heading of a table no row appears for a column of it with sensitive =
\* true, in the whole text no row appears for a name that is sensitive in
\* every table that has it, and every non-sensitive column of every table
\* appears exactly once under its table.
C20_SensitiveColumnsOmitted ==
    vcontext # <<>> =>
        LET config == vconfig[1]
            text == vcontext[1]
            tables == {config.tables[k] : k \in 1..Len(config.tables)}
            ColumnsOf(t) == {t.columns[k] : k \in 1..Len(t.columns)}
            Marked(c) == c.sensitive = JsBoolean(TRUE)
            lines == TextLines(text)
        IN  /\ \A t \in tables :
                  LET under == LinesUnder(lines, t.name)
                  IN  \A c \in ColumnsOf(t) :
                        /\ Marked(c) => \A e \in under : ~IsRowFor(lines[e], c.name)
                        /\ ~Marked(c) =>
                              Cardinality({e \in under : lines[e] = RowOf(c)}) = 1
            /\ \A name \in {c.name : c \in UNION {ColumnsOf(t) : t \in tables}} :
                  (\A t \in tables : \A c \in ColumnsOf(t) : c.name = name => Marked(c))
                  => \A e \in DOMAIN lines : ~IsRowFor(lines[e], name)

\* C20 witness: a table with a sensitive and a non-sensitive column has been
\* serialized without the sensitive one
C20_Witness ==
    /\ vconfig # <<>>
    /\ vconfig[1].tables =
          << [ name |-> "users", description |-> JsString("User accounts"),
               columns |-> << [ name |-> "id", type |-> "uuid",
                                description |-> JsString("Primary key"),
                                sensitive |-> JsUndefined ],
                              [ name |-> "password_hash", type |-> "text",
                                description |-> JsString("bcrypt"),
                                sensitive |-> JsBoolean(TRUE) ] >> ] >>
    /\ vconfig[1].relationships = <<>>
    /\ vconfig[1].customInstructions = JsUndefined
    /\ vcontext =
          << "You have access to a PostgreSQL database. Here are the tables and their columns:\n\n"
             \o "## users\nUser accounts\n"
             \o "| Column | Type | Description |\n|--------|------|-------------|\n"
             \o "| id | uuid | Primary key |\n\n" >>

(***************************************************************************)
(* SpecHttp: one request handled by a server adapter, createFetchHandler,  *)
(* createExpressHandler or createSupabaseHandler, which forwards it to     *)
(* askDatabase.  createSupabaseHandler is createFetchHandler with an       *)
(* executeQuery that calls an rpc of the Supabase client.                  *)
(***************************************************************************)
Adapters == {"fetch", "express", "supabase"}

Methods == {"POST", "GET", "OPTIONS"}

\* the values of the maxRows field of a JSON body
BodyMaxRows ==
    { JsUndefined, JsNumber(5), JsNumber(-1), JsNull,
      JsString("5; DROP TABLE orders") }

\* what a request carries as its body: nothing, the JSON text null, or a JSON
\* object with some of the fields question, maxRows and formatResults
Payloads ==
    [ kind : {"none", "null"}, question : {JsUndefined}, maxRows : {JsUndefined},
      formatResults : {JsUndefined} ]
    \cup
    [ kind : {"object"},
      question : {JsString("How many orders?"), JsString(""), JsUndefined, JsNumber(7)},
      maxRows : BodyMaxRows,
      formatResults : {JsUndefined, JsBoolean(FALSE)} ]

\* the schema of the adapter's configuration
ConfigSchemas == {JsString("## orders"), JsUndefined}

Requests ==
    [ adapter : Adapters, method : Methods, payload : Payloads,
      schema : ConfigSchemas ]

\* what getModel (getApiKey in fetch-handler.ts) settles with
FactoryReplies ==
    [ ok : {TRUE}, thrown : {JsUndefined} ]
    \cup
    [ ok : {FALSE},
      thrown : { JsError("API key is required"),
                 JsError("Invalid model id"),
                 JsString("boom") } ]

HttpGenerateReplies ==
    { reply \in GenerateReplies :
        \/ ~reply.ok /\ reply.error = "Gemini API error: quota exceeded"
        \/ /\ reply.ok
           /\ reply.usage # <<>>
           /\ reply.sql \in { JsString("SELECT * FROM orders"),
                              JsString("SELECT COUNT(*) FROM orders"),
                              JsString("DROP TABLE orders") } }

\* what the executeQuery of the configuration settles with
HttpExecuteReplies ==
    [ ok : {TRUE}, rows : {<< <<Cell("count", JsNumber(1247))>> >>},
      thrown : {JsUndefined} ]
    \cup
    [ ok : {FALSE}, rows : {<<>>},
      thrown : { JsError("invalid input syntax for type integer"),
                 JsString("boom") } ]

\* what supabaseClient.rpc resolves with: { data, error }; data is <<rows>>
\* or <<>> for null, error is <<message>> or <<>> for null
RpcReplies ==
    [ data : {<< << <<Cell("count", JsNumber(1247))>> >> >>, <<>>},
      error : {<<>>, <<"permission denied for function execute_readonly_query">>} ]

\* the executeQuery of createSupabaseHandler, given what the rpc resolved with
SupabaseExecuteQuery(rpc) ==
    IF rpc.error # <<>>
    THEN [ ok |-> FALSE, rows |-> <<>>,
           thrown |-> JsError("SQL execution error: " \o rpc.error[1]) ]
    ELSE [ ok |-> TRUE, rows |-> IF rpc.data = <<>> THEN <<>> ELSE rpc.data[1],
           thrown |-> JsUndefined ]

Response(status, error) == [status |-> status, error |-> error, result |-> <<>>]

\* the response to a request whose method is not POST, in createFetchHandler
MethodResponse(method) ==
    IF method = "OPTIONS" THEN Response(200, "")
    ELSE Response(405, "Method not allowed")

\* ErrorResponse with the status decided by "invalid" alone
ErrorResponseInvalidOnly(thrown) ==
    LET message == IF thrown.t = "Error" THEN thrown.s ELSE "Internal server error"
    IN  Response(IF Includes(message, "invalid") THEN 400 ELSE 500, message)

\* the catch block of a handler
ErrorResponse(thrown) ==
    LET message == IF thrown.t = "Error" THEN thrown.s ELSE "Internal server error"
    IN  Response(IF Includes(message, "invalid") \/ Includes(message, "required")
                 THEN 400 ELSE 500,
                 message)

\* !question || typeof question !== 'string'
QuestionMissing(question) == ~Truthy(question) \/ question.t # "string"

Respond(h, response) == [h EXCEPT !.pc = "responded", !.response = <<response>>]

\* a value thrown inside the try block is caught and answered
Catch(h, thrown) == Respond([h EXCEPT !.thrown = <<thrown>>], ErrorResponse(thrown))

\* the question check and what follows it up to the await of the factory
CheckQuestion(h, body) ==
    LET parsed == [h EXCEPT !.body = <<body>>]
    IN  IF QuestionMissing(body.question)
        THEN Respond(parsed, Response(400, "Question is required"))
        ELSE [parsed EXCEPT !.pc = "getModel",
                            !.calls = Append(@, IF h.request[1].adapter = "fetch"
                                                THEN "getApiKey" ELSE "getModel")]

\* const { question, maxRows, formatResults } = req.body || {}
ExpressBody(payload) ==
    IF payload.kind = "object" THEN payload
    ELSE [payload EXCEPT !.kind = "object"]

InitHttp ==
    /\ inv = [i \in Invocations |-> IdleInvocation]
    /\ vsql = ""
    /\ vmaxRows = JsUndefined
    /\ vvalidation = <<>>
    /\ vsafeSql = <<>>
    /\ PureAtRest
    /\ SchemaAtRest
    /\ HttpAtRest

\* a request arrives and the handler runs up to its first await
Receive(request) ==
    /\ http.pc = "idle"
    /\ LET h == [http EXCEPT !.request = <<request>>]
       IN  http' =
             IF request.adapter = "express"
             THEN CheckQuestion(h, ExpressBody(request.payload))
             ELSE IF request.method # "POST"
             THEN Respond(h, MethodResponse(request.method))
             ELSE [h EXCEPT !.pc = "json", !.calls = Append(@, "request.json")]
    /\ UNCHANGED <<sqlVars, inv, pureVars, schemaVars>>

\* await request.json() settles: it throws on a body that is no JSON text; a
\* field of the body null cannot be read
JsonSettles ==
    /\ http.pc = "json"
    /\ LET payload == http.request[1].payload
       IN  http' =
             CASE payload.kind = "none" ->
                    Catch(http, JsError("Unexpected end of JSON input"))
               [] payload.kind = "null" ->
                    Catch(http, JsError("Cannot read properties of null (reading 'question')"))
               [] OTHER -> CheckQuestion(http, payload)
    /\ UNCHANGED <<sqlVars, inv, pureVars, schemaVars>>

\* the options a handler hands to askDatabase
HandlerOptions(h) ==
    [ question |-> h.body[1].question,
      schema |-> h.request[1].schema,
      maxRows |-> h.body[1].maxRows,
      formatResults |-> h.body[1].formatResults,
      timeout |-> JsUndefined ]

\* await getModel() settles: what it throws goes to the catch block; otherwise
\* the handler calls askDatabase
FactorySettles(reply) ==
    /\ http.pc = "getModel"
    /\ IF ~reply.ok
       THEN /\ http' = Catch(http, reply.thrown)
            /\ UNCHANGED inv
       ELSE /\ http' = [http EXCEPT !.pc = "askDatabase",
                                    !.calls = Append(@, "askDatabase")]
            /\ inv' = [inv EXCEPT !["a"] = askDatabase(inv["a"], HandlerOptions(http))]
    /\ UNCHANGED <<sqlVars, pureVars, schemaVars>>

\* await askDatabase(...) settles: the result is sent, or the error goes to
\* the catch block
AskDatabaseSettles ==
    /\ http.pc = "askDatabase"
    /\ inv["a"].outcome.state # "pending"
    /\ http' = IF inv["a"].outcome.state = "fulfilled"
               THEN Respond(http, [status |-> 200, error |-> "",
                                   result |-> inv["a"].outcome.value])
               ELSE Catch(http, JsError(inv["a"].outcome.error))
    /\ UNCHANGED <<sqlVars, inv, pureVars, schemaVars>>

\* executeQuery settles, with the executeQuery of the adapter in use
HttpExecuteSettles ==
    /\ http.request # <<>>
    /\ IF http.request[1].adapter = "supabase"
       THEN \E rpc \in RpcReplies : ExecuteSettles("a", SupabaseExecuteQuery(rpc))
       ELSE \E reply \in HttpExecuteReplies : ExecuteSettles("a", reply)

NextHttp ==
    \/ \E request \in Requests : Receive(request)
    \/ JsonSettles
    \/ \E reply \in FactoryReplies : FactorySettles(reply)
    \/ \E reply \in HttpGenerateReplies : GenerateSettles("a", reply)
    \/ HttpExecuteSettles
    \/ \E reply \in ConcFormatReplies : FormatSettles("a", reply)
    \/ TimerFires("a")
    \/ AskDatabaseSettles

SpecHttp == InitHttp /\ [][NextHttp]_vars

(***************************************************************************)
(* Properties of the server adapters, checked under SpecHttp.              *)
(***************************************************************************)
HandlerCalled(name) == \E k \in 1..Len(http.calls) : http.calls[k] = name

\* C21: every adapter answers a request whose method is not POST with status
\* 405 and calls neither the model factory nor askDatabase nor the executor
\* for it (the answer of the fetch handler to a CORS preflight, method
\* OPTIONS, left aside).
C21_NonPostRejected ==
    (http.request # <<>> /\ http.request[1].method \notin {"POST", "OPTIONS"}) =>
        /\ ~HandlerCalled("getModel")
        /\ ~HandlerCalled("getApiKey")
        /\ ~HandlerCalled("askDatabase")
        /\ inv["a"].calls = <<>>
        /\ inv["a"].executed = <<>>
        /\ http.response # <<>> => http.response[1].status = 405

\* text occurs in s, letter case kept
HasText(s, text) ==
    \E k \in 1..(Len(s) - Len(text) + 1) : SubSeq(s, k, k + Len(text) - 1) = text

\* C22: a value thrown while a request is handled is answered with status 400
\* exactly when it is an Error whose message contains "invalid" or "required",
\* and with status 500 otherwise, the message of the Error being the error of
\* the response; a thrown value that is no Error is answered "Internal server
\* error" with status 500.  A validation failure of askDatabase is answered
\* 400 and a timeout 500.
C22_ErrorStatus ==
    (http.thrown # <<>>) =>
        LET thrown == http.thrown[1]
            response == http.response[1]
            r == inv["a"]
        IN  /\ http.response # <<>>
            /\ response.status \in {400, 500}
            /\ thrown.t = "Error" =>
                  /\ response.error = thrown.s
                  /\ response.status = 400 <=>
                        (HasText(thrown.s, "invalid") \/ HasText(thrown.s, "required"))
            /\ thrown.t # "Error" =>
                  /\ response.error = "Internal server error"
                  /\ response.status = 500
            /\ ( /\ HandlerCalled("askDatabase")
                 /\ r.outcome.state = "rejected"
                 /\ r.validation # <<>>
                 /\ ~r.validation[1].valid
                 /\ r.outcome = r.pipeline )
               => response.status = 400
            /\ ( /\ HandlerCalled("askDatabase")
                 /\ r.outcome = Rejected("Query timed out after 30000ms") )
               => response.status = 500

\* C22 witness: the missing schema of the configuration, reported by
\* generateSql, has been answered 400, after a request on which the factory
\* did not throw
C22_Witness ==
    /\ http.thrown = <<JsError(SchemaRequiredMessage)>>
    /\ http.response # <<>>
    /\ http.response[1].status = 400
    /\ HandlerCalled("askDatabase")

(***************************************************************************)
(* Properties of the failure and timeout paths of askDatabase, checked     *)
(* under Spec.                                                             *)
(***************************************************************************)
\* C23: when formatResults is on and the model call of the formatter fails,
\* the pipeline rejects with the formatter's error although executeQuery
\* succeeded; the caller gets that error (or the timeout, when it was reported
\* first), never a result with the rows and never the default answer.
C23_FormatFailurePropagates ==
    \A i \in Invocations :
        LET r == inv[i]
        IN  (r.formatReply # <<>> /\ ~r.formatReply[1].ok) =>
                /\ r.shouldFormat
                /\ r.executeReply # <<>> /\ r.executeReply[1].ok
                /\ r.rawData = <<r.executeReply[1].rows>>
                /\ r.pc = "finished"
                /\ r.pipeline = Rejected(r.formatReply[1].error)
                /\ r.outcome = r.pipeline \/ TimedOut(r)
                /\ r.outcome.value = <<>>

\* C23 witness: the executor returned rows, the formatter failed, and the
\* caller has the formatter's error
C23_Witness ==
    LET r == inv["a"]
    IN  /\ r.formatReply # <<>> /\ ~r.formatReply[1].ok
        /\ r.rawData # <<>> /\ Len(r.rawData[1]) > 0
        /\ r.outcome = Rejected("Gemini API error: overloaded")

\* the generated SQL of invocation r is a string that contains DROP TABLE
GeneratedDropTable(r) ==
    /\ r.generated # <<>>
    /\ r.generated[1].ok
    /\ r.generated[1].sql.t = "string"
    /\ HasText(r.generated[1].sql.s, "DROP TABLE")

\* C24 as stated: for every generated SQL that contains DROP TABLE the
\* pipeline rejects with a message that contains "Generated SQL is invalid"
\* and the keyword "DROP", and executeQuery is not invoked.
C24_DropTableNamed ==
    \A i \in Invocations :
        LET r == inv[i]
        IN  GeneratedDropTable(r) =>
                /\ r.pipeline.state = "rejected"
                /\ HasText(r.pipeline.error, "Generated SQL is invalid")
                /\ HasText(r.pipeline.error, "DROP")
                /\ r.executed = <<>>

\* C24: for every generated SQL that contains DROP TABLE the pipeline rejects
\* with "Generated SQL is invalid: <reason>" and executeQuery is not invoked;
\* the reason is "Query contains blocked keyword: DROP" when the SQL begins
\* with SELECT or WITH and holds none of the keywords listed before DROP, and
\* "Query must be a SELECT statement" when it does not begin with SELECT or
\* WITH; the caller gets that rejection unless the timeout was reported first.
C24_DropTableRejected ==
    \A i \in Invocations :
        LET r == inv[i]
            sql == r.generated[1].sql.s
        IN  GeneratedDropTable(r) =>
                /\ r.pipeline.state = "rejected"
                /\ Len(r.pipeline.error) > 26
                /\ SubSeq(r.pipeline.error, 1, 26) = "Generated SQL is invalid: "
                /\ r.outcome = r.pipeline \/ TimedOut(r)
                /\ r.executed = <<>>
                /\ ~Called(r, "executeQuery")
                /\ ( /\ BeginsWithSelectOrWith(sql)
                     /\ \A k \in {"INSERT", "UPDATE", "DELETE"} : ~ContainsWholeWord(k, sql) )
                   => r.pipeline.error =
                        "Generated SQL is invalid: Query contains blocked keyword: DROP"
                /\ ~BeginsWithSelectOrWith(sql)
                   => r.pipeline.error =
                        "Generated SQL is invalid: Query must be a SELECT statement"

\* C24 witness: a generated DROP TABLE statement has been rejected as not
\* being a SELECT statement, and nothing was executed
C24_Witness ==
    LET r == inv["a"]
    IN  /\ r.generated # <<>>
        /\ r.generated[1].sql = JsString("DROP TABLE orders")
        /\ r.outcome = Rejected("Generated SQL is invalid: Query must be a SELECT statement")
        /\ r.executed = <<>>

\* C25: once the caller has the timeout error, the abandoned pipeline starts
\* nothing more for that invocation: neither executeQuery nor the model call
\* of the formatter is called afterwards.
C25_NothingStartedAfterTimeout ==
    [][\A i \in Invocations :
          TimedOut(inv[i]) =>
              /\ inv'[i].executed = inv[i].executed
              /\ TimesCalled(inv'[i], "executeQuery") = TimesCalled(inv[i], "executeQuery")
              /\ TimesCalled(inv'[i], "generateText") = TimesCalled(inv[i], "generateText")
      ]_vars

(***************************************************************************)
(* Further properties of the server adapters, checked under SpecHttp.      *)
(***************************************************************************)
\* C26: for every request an adapter forwards to askDatabase, every string
\* handed to executeQuery passes validateSql, whatever JSON value the maxRows
\* field of the body carries.
C26_ExecutedSqlPassesValidation ==
    HandlerCalled("askDatabase") =>
        \A k \in 1..Len(inv["a"].executed) :
            validateSql(JsString(inv["a"].executed[k])).valid

(***************************************************************************)
(* Relations between the validator and the limiter, checked under SpecSql. *)
(***************************************************************************)
\* C27: for every SQL string that validateSql accepts and every non-negative
\* integer maxRows, validateSql accepts addSafetyLimits(sql, maxRows) as well.
C27_LimitKeepsValid ==
    ( /\ vvalidation # <<>>
      /\ vvalidation[1].valid
      /\ vsafeSql # <<>>
      /\ vmaxRows.t = "number" /\ vmaxRows.n >= 0 )
    => validateSql(JsString(vsafeSql[1])).valid

(***************************************************************************)
(* SpecLive: Spec with the event loop running the callback of every timer  *)
(* that was set; the model, the executor and the formatter are left free   *)
(* never to settle.                                                        *)
(***************************************************************************)
SpecLive == Init /\ [][Next]_vars /\ \A i \in Callers : WF_vars(TimerFires(i))

\* C28: every invocation of askDatabase, its timeout finite, settles in the
\* end, resolved or rejected, whether or not the generator, the executor or
\* the formatter ever settle.
C28_EventuallySettles ==
    \A i \in Callers :
        (inv[i].pc # "idle") ~> (inv[i].outcome.state # "pending")

\* C28 witness: the model call of generateSql has not settled, the timer has
\* fired, and the caller has the timeout error
C28_Witness ==
    LET r == inv["a"]
    IN  /\ r.pc = "generateSql"
        /\ r.pipeline.state = "pending"
        /\ r.timeout.t = "number"
        /\ TimedOut(r)

(***************************************************************************)
(* The race of the pipeline and the timer, checked under Spec.             *)
(***************************************************************************)
\* C29: the outcome of an invocation is decided once, by whichever of the
\* pipeline and the timer settles first: a pipeline that settles while the
\* caller's promise is pending gives it its result or error, a timer that
\* fires while it is pending gives it the timeout error, and once decided it
\* changes no more, neither when the timer, never cleared, fires later nor
\* when the pipeline completes or fails later.
C29_DecidedOnce ==
    [][\A i \in Invocations :
          LET r == inv[i]
              s == inv'[i]
          IN  /\ r.outcome.state # "pending" => s.outcome = r.outcome
              /\ ( /\ r.outcome.state = "pending"
                   /\ r.pipeline.state = "pending"
                   /\ s.pipeline.state # "pending" )
                 => s.outcome = s.pipeline
              /\ ( /\ r.outcome.state = "pending"
                   /\ r.timer = "armed"
                   /\ s.timer = "fired" )
                 => /\ s.outcome.state = "rejected"
                    /\ s.outcome.error =
                         "Query timed out after " \o ToString(r.timeout.n) \o "ms"
              /\ s.outcome # r.outcome => (s.pipeline # r.pipeline \/ s.timer # r.timer)
              /\ (r.pipeline.state # "pending" /\ r.pc # "idle") => s.timer \in {"armed", "fired"}
      ]_vars

\* C29 witness: the pipeline completed with a result first, the timer fired
\* afterwards, and the caller still has the result
C29_Witness ==
    LET r == inv["a"]
    IN  /\ r.pipeline.state = "fulfilled"
        /\ r.timer = "fired"
        /\ r.outcome = r.pipeline

\* the number of places of s where text occurs
CountText(s, text) ==
    Cardinality({k \in 1..(Len(s) - Len(text) + 1) : SubSeq(s, k, k + Len(text) - 1) = text})

\* C30: addSafetyLimits applied to its own result, with the same integer
\* maxRows, returns that result unchanged, so that a second application adds
\* no LIMIT clause.
C30_LimitIdempotent ==
    (vsafeSql # <<>> /\ vmaxRows.t = "number") =>
        LET once == vsafeSql[1]
            twice == addSafetyLimits(once, vmaxRows)
        IN  /\ twice = once
            /\ CountText(ToUpperCase(twice), " LIMIT ") = CountText(ToUpperCase(once), " LIMIT ")

\* C30 witness: a query without a LIMIT clause has been given one
C30_Witness ==
    /\ vsql = "SELECT x;"
    /\ vmaxRows = JsNumber(-1)
    /\ vsafeSql = <<"SELECT x LIMIT -1">>

====
